---- MODULE Spec2Model ----
(***************************************************************************)
(* Model of the atlas composition subsystem of lightning-js/msdf-generator *)
(*                                                                         *)
(*   src/src/genFont.ts     single-font generation with atlas stitching    *)
(*                          (calculateOptimalLayout, stitchTextures,       *)
(*                          updateCharacterCoordinates, generateFont)      *)
(*   src/unnamed/part_000   family generation (genFontsByFamily,           *)
(*                          generateFontFamily, paginated generateFont)    *)
(*   src/dist/genFont.js    the metrics step (adjustFont) and the batch    *)
(*                          driver (generateFonts)                         *)
(*                                                                         *)
(* JavaScript arrays are 0-based, TLA+ sequences 1-based: the element the  *)
(* code calls a[k] is a[k + 1] here.  Page indices stored in glyphs and    *)
(* page numbers stored in style entries keep the code's 0-based values.    *)
(***************************************************************************)
EXTENDS Integers, Sequences, FiniteSets, TLC

VARIABLES
    pc,               \* position inside genFont / generateFont's callback
    fieldType,        \* genFont's fieldType argument
    textures,         \* pages handed over by the rasterizer (width, height)
    files,            \* destination directory: file name -> content
    originalPaths,    \* generateFont: originalPaths
    tempPaths,        \* generateFont: tempPaths
    layout,           \* stitchTextures: layout
    canvas,           \* stitchTextures: canvas (size and the draws made on it)
    stitchResult,     \* stitchTextures' return value
    console,          \* lines written by console.warn
    result,           \* value generateFont resolves with
    planIn,           \* argument of a direct calculateOptimalLayout call
    planOut,          \* its return value
    fpc,              \* position inside generateFontFamily
    fonts,            \* generateFontFamily: fonts (the sorted styles of the family)
    loopI,            \* generateFontFamily: the loop index i (0-based)
    styleInfos,       \* generateFontFamily: styleInfos
    individualPngPaths, \* generateFontFamily: individualPngPaths
    combinedJsonData, \* generateFontFamily: combinedJsonData
    familyPngPaths,   \* generateFontFamily: familyPngPaths
    globalPageIndex,  \* generateFontFamily: globalPageIndex
    familyResult,     \* value generateFontFamily returns
    familyName,       \* generateFontFamily: familyName
    sortIn,           \* genFontsByFamily: a family's fonts before fonts.sort
    sortOut,          \* the same array after fonts.sort
    rpc,              \* position inside generateFonts / genFontsByFamily
    useFamily,        \* generateFonts: useFamily
    fontFiles,        \* generateFonts: fontFiles (the listing of font-src)
    fileIdx,          \* generateFonts: position of the individual loop (1-based)
    fontFamilies,     \* genFontsByFamily: fontFamilies, in insertion order
    famIdx,           \* genFontsByFamily: position of the family loop (1-based)
    results,          \* genFontsByFamily: results
    adjIdx,           \* generateFonts: position of the adjustFont loop (1-based)
    info,             \* generateFonts: msdfFont / ssdfFont, genFont's return value
    lastCall,         \* the latest genFont call: its arguments and what it did
    adjustWrites,     \* names of the files the latest adjustFont call wrote
    exitCode          \* argument of process.exit, NONE while the process runs

stitchVars == <<pc, fieldType, textures, files, originalPaths, tempPaths,
                layout, canvas, stitchResult, console, result>>
planVars == <<planIn, planOut>>
batchVars == <<rpc, useFamily, fontFiles, fileIdx, fontFamilies, famIdx, results,
               adjIdx, info, lastCall, adjustWrites, exitCode>>
runVars == <<familyName, sortIn, sortOut, batchVars>>
familyVars == <<fpc, fonts, loopI, styleInfos, individualPngPaths, combinedJsonData,
                familyPngPaths, globalPageIndex, familyResult>>
vars == <<pc, fieldType, textures, files, originalPaths, tempPaths,
          layout, canvas, stitchResult, console, result, planIn, planOut,
          fpc, fonts, loopI, styleInfos, individualPngPaths, combinedJsonData,
          familyPngPaths, globalPageIndex, familyResult,
          familyName, sortIn, sortOut,
          rpc, useFamily, fontFiles, fileIdx, fontFamilies, famIdx, results,
          adjIdx, info, lastCall, adjustWrites, exitCode>>

-----------------------------------------------------------------------------
(* Bounds of the model *)

MaxPages == 2          \* pages one rasterization returns in the pipeline
MaxLayoutPages == 4    \* pages handed to a direct calculateOptimalLayout call
MaxChars == 2          \* glyphs in one metadata document

\* page sizes: the rasterizer runs with pot: true, so sizes are powers of two
\* up to the configured textureSize ([512, 512] by default)
PageWidths == {256, 512}
PageHeights == {256, 512}
GlyphPositions == {<<10, 10>>, <<300, 300>>}
GlyphSize == 20

fontName == "Ubuntu-Regular"
FieldTypes == {"msdf", "ssdf"}

NONE == [kind |-> "none"]
\* JavaScript's null
NULL == [kind |-> "null"]

-----------------------------------------------------------------------------
(* Program constants *)

PADDING == 2
textureWidth == 256
textureHeight == 256
DefaultTextureSize == 512

-----------------------------------------------------------------------------
(* Data *)

SeqsUpTo(S, n) == UNION {[1..k -> S] : k \in 0..n}

PageSizes == [width : PageWidths, height : PageHeights]

\* the character code of the glyph packed at a position: "A" near the origin
\* of a page, "B" further in
glyphIdAt(xy) == IF xy[1] < 256 THEN 65 ELSE 66

Glyphs(maxPage) ==
    {[id |-> glyphIdAt(xy), page |-> p, x |-> xy[1], y |-> xy[2],
      width |-> GlyphSize, height |-> GlyphSize,
      xoffset |-> 0, yoffset |-> 10, xadvance |-> GlyphSize] :
        p \in 0..maxPage, xy \in GlyphPositions}

\* A value || fallback: JavaScript's || takes the fallback for 0
OrDefault(v, d) == IF v = 0 THEN d ELSE v

\* JSON.stringify / JSON.parse of a document of integers, strings and arrays
JSONstringify(doc) == [kind |-> "json", data |-> doc]
JSONparse(content) == content.data

\* fs.writeFileSync
writeFile(fs, name, content) == (name :> content) @@ fs

\* fs.unlinkSync guarded by fs.existsSync
unlinkIfExists_keep(fs, names) == fs

unlinkIfExists(fs, names) == [n \in (DOMAIN fs) \ names |-> fs[n]]

RangeOf(s) == {s[k] : k \in DOMAIN s}

-----------------------------------------------------------------------------
(* calculateOptimalLayout: src/src/genFont.ts 246-274 *)

\* the planner with the gutters left out of the canvas width
calculateOptimalLayout_noGutterInWidth(texs) ==
    IF Len(texs) = 1
    THEN [width |-> OrDefault(texs[1].width, DefaultTextureSize),
          height |-> OrDefault(texs[1].height, DefaultTextureSize),
          positions |-> << [x |-> 0, y |-> 0,
                            width |-> OrDefault(texs[1].width, DefaultTextureSize),
                            height |-> OrDefault(texs[1].height, DefaultTextureSize)] >>]
    ELSE [width |-> Len(texs) * textureWidth,
          height |-> textureHeight,
          positions |-> [k \in 1..Len(texs) |->
                            [x |-> (k - 1) * (textureWidth + PADDING), y |-> 0,
                             width |-> textureWidth, height |-> textureHeight]]]

\* the planner without its single-page branch
calculateOptimalLayout_noSinglePage(texs) ==
    [width |-> Len(texs) * textureWidth + (Len(texs) - 1) * PADDING,
     height |-> textureHeight,
     positions |-> [k \in 1..Len(texs) |->
                       [x |-> (k - 1) * (textureWidth + PADDING), y |-> 0,
                        width |-> textureWidth, height |-> textureHeight]]]

calculateOptimalLayout(texs) ==
    IF Len(texs) = 1
    THEN [width |-> OrDefault(texs[1].width, DefaultTextureSize),
          height |-> OrDefault(texs[1].height, DefaultTextureSize),
          positions |-> << [x |-> 0, y |-> 0,
                            width |-> OrDefault(texs[1].width, DefaultTextureSize),
                            height |-> OrDefault(texs[1].height, DefaultTextureSize)] >>]
    ELSE [width |-> Len(texs) * textureWidth + (Len(texs) - 1) * PADDING,
          height |-> textureHeight,
          positions |-> [k \in 1..Len(texs) |->
                            [x |-> (k - 1) * (textureWidth + PADDING), y |-> 0,
                             width |-> textureWidth, height |-> textureHeight]]]

-----------------------------------------------------------------------------
(* updateCharacterCoordinates: src/src/genFont.ts 344-367 *)

\* layout.positions[char.page]; a missing entry reads as undefined
hasPosition(lay, page) == (page + 1) \in DOMAIN lay.positions

\* the callback forgetting the placement's x offset
remapChar_noOffset(char, lay) ==
    IF ~hasPosition(lay, char.page)
    THEN [char |-> [char EXCEPT !.page = 0], warn |-> TRUE]
    ELSE [char |-> [char EXCEPT !.y = char.y + lay.positions[char.page + 1].y,
                                !.page = 0],
          warn |-> FALSE]

\* the callback passing a glyph without placement through, silently
remapChar_silent(char, lay) ==
    IF ~hasPosition(lay, char.page)
    THEN [char |-> char, warn |-> FALSE]
    ELSE [char |-> [char EXCEPT !.x = char.x + lay.positions[char.page + 1].x,
                                !.y = char.y + lay.positions[char.page + 1].y,
                                !.page = 0],
          warn |-> FALSE]

\* the callback of fontData.chars.map: the new glyph, and whether it warned
remapChar(char, lay) ==
    IF ~hasPosition(lay, char.page)
    THEN [char |-> [char EXCEPT !.page = 0], warn |-> TRUE]
    ELSE [char |-> [char EXCEPT !.x = char.x + lay.positions[char.page + 1].x,
                                !.y = char.y + lay.positions[char.page + 1].y,
                                !.page = 0],
          warn |-> FALSE]

\* the argument object as the call leaves it: updatedData is a shallow copy,
\* so the chars property of the argument keeps the list map() read, whose
\* records the callback only spreads, while common is shared with the copy
\* and takes the merged dimensions
fontDataAfterUpdate(fontData, lay) ==
    [fontData EXCEPT
        !.common = [fontData.common EXCEPT !.scaleW = lay.width,
                                           !.scaleH = lay.height]]

\* a filter in place of the map: glyphs without placement are left out
updateCharacterCoordinates_dropUnplaced(fontData, lay) ==
    LET placed == SelectSeq(fontData.chars, LAMBDA char : hasPosition(lay, char.page))
    IN  [fontData EXCEPT
            !.chars = [k \in DOMAIN placed |-> remapChar(placed[k], lay).char],
            !.common = [fontData.common EXCEPT !.scaleW = lay.width,
                                               !.scaleH = lay.height]]

updateCharacterCoordinates(fontData, lay) ==
    [fontData EXCEPT
        !.chars = [k \in DOMAIN fontData.chars |-> remapChar(fontData.chars[k], lay).char],
        !.common = [fontData.common EXCEPT !.scaleW = lay.width,
                                           !.scaleH = lay.height]]

\* the console.warn lines of one updateCharacterCoordinates call, in order
remapWarnings(fontData, lay) ==
    LET warned == SelectSeq([k \in DOMAIN fontData.chars |-> k],
                            LAMBDA k : remapChar(fontData.chars[k], lay).warn)
    IN  [j \in DOMAIN warned |->
            [level |-> "warn", char |-> warned[j], page |-> fontData.chars[warned[j]].page]]

-----------------------------------------------------------------------------
(* File names: src/src/genFont.ts 170-172, 182, 325 *)

pagePngName(ft, index) == fontName \o "." \o ft \o "." \o ToString(index) \o ".png"
pngName(ft) == fontName \o "." \o ft \o ".png"
jsonName(ft) == fontName \o "." \o ft \o ".json"

\* the file name generateFont gives texture `index` (0-based) out of n
textureFileName(ft, n, index) ==
    IF n > 1 THEN pagePngName(ft, index) ELSE pngName(ft)

-----------------------------------------------------------------------------
(* The rasterizer (generateBMFont, external): its result for one font *)

\* the texture buffer of page `index`: pixel (px, py) of it is <<index, px, py>>
textureBuffer(tex, index) ==
    [kind |-> "png", width |-> tex.width, height |-> tex.height, page |-> index]

\* font.data: the serialized metadata document
rasterDocument(texs, chars, face) ==
    [info |-> [face |-> face],
     chars |-> chars,
     common |-> [scaleW |-> IF texs = <<>> THEN 0 ELSE texs[1].width,
                 scaleH |-> IF texs = <<>> THEN 0 ELSE texs[1].height,
                 pages |-> Len(texs),
                 base |-> 40],
     pages |-> [k \in 1..Len(texs) |-> "raster." \o ToString(k - 1) \o ".png"],
     distanceField |-> [distanceRange |-> 4]]

-----------------------------------------------------------------------------
(* The canvas (node-canvas, external) *)

\* loadImage: the decoded image of a PNG file
loadImage(content) ==
    [width |-> content.width, height |-> content.height, page |-> content.page]

\* createCanvas + clearRect: a transparent canvas with no draw on it
createCanvas(w, h) == [width |-> w, height |-> h, draws |-> <<>>]

\* ctx.drawImage(image, dx, dy, dw, dh): the whole image drawn into the
\* dw x dh rectangle at (dx, dy)
drawImage(cv, image, dx, dy, dw, dh) ==
    [cv EXCEPT !.draws = Append(@, [page |-> image.page, dx |-> dx, dy |-> dy,
                                    dw |-> dw, dh |-> dh,
                                    sw |-> image.width, sh |-> image.height])]

TRANSPARENT == <<>>

covers(d, cx, cy) ==
    /\ d.dx <= cx /\ cx < d.dx + d.dw
    /\ d.dy <= cy /\ cy < d.dy + d.dh

\* the source pixel a draw puts at canvas pixel (cx, cy)
sourcePixel(d, cx, cy) ==
    <<d.page, ((cx - d.dx) * d.sw) \div d.dw, ((cy - d.dy) * d.sh) \div d.dh>>

inCanvas(cv, cx, cy) ==
    /\ 0 <= cx /\ cx < cv.width
    /\ 0 <= cy /\ cy < cv.height

RECURSIVE pixelAfter(_, _, _, _)
pixelAfter(draws, n, cx, cy) ==
    IF n = 0 THEN TRANSPARENT
    ELSE IF covers(draws[n], cx, cy) THEN sourcePixel(draws[n], cx, cy)
    ELSE pixelAfter(draws, n - 1, cx, cy)

\* the content of canvas pixel (cx, cy): what the last draw covering it put
\* there; a draw is clipped to the canvas, pixels outside it do not exist
canvasPixel(cv, cx, cy) == pixelAfter(cv.draws, Len(cv.draws), cx, cy)

\* canvas.toBuffer('image/png')
toBuffer(cv) ==
    [kind |-> "png", width |-> cv.width, height |-> cv.height, draws |-> cv.draws]

-----------------------------------------------------------------------------
(* stitchTextures: src/src/genFont.ts 279-339 *)

\* images.forEach((image, pageIndex) => ...): draw the images in order, each
\* at its position, skipping an image that has none
RECURSIVE drawAll(_, _, _, _)
drawAll(cv, images, lay, k) ==
    IF k > Len(images) THEN cv
    ELSE drawAll(IF k \in DOMAIN lay.positions
                 THEN drawImage(cv, images[k], lay.positions[k].x,
                                lay.positions[k].y,
                                images[k].width, images[k].height)
                 ELSE cv,
                 images, lay, k + 1)

\* the returned document with the page count left as the rasterizer set it
stitchedFontData_keepPageCount(fontData, lay, ft) ==
    LET updated == updateCharacterCoordinates(fontData, lay)
    IN  [updated EXCEPT !.pages = << pngName(ft) >>]

\* the document stitchTextures returns: remapped, with a single page
stitchedFontData(fontData, lay, ft) ==
    LET updated == updateCharacterCoordinates(fontData, lay)
    IN  [updated EXCEPT !.pages = << pngName(ft) >>,
                        !.common = [updated.common EXCEPT !.pages = 1]]

-----------------------------------------------------------------------------
(* genFont / generateFont: src/src/genFont.ts 85-230 *)

Init ==
    /\ pc = "idle"
    /\ fieldType = "none"
    /\ textures = <<>>
    /\ files = <<>>
    /\ originalPaths = <<>>
    /\ tempPaths = <<>>
    /\ layout = NONE
    /\ canvas = NONE
    /\ stitchResult = NONE
    /\ console = <<>>
    /\ result = NONE
    /\ planIn = <<>>
    /\ planOut = NONE
    /\ fpc = "idle"
    /\ fonts = <<>>
    /\ loopI = 0
    /\ styleInfos = <<>>
    /\ individualPngPaths = <<>>
    /\ combinedJsonData = NULL
    /\ familyPngPaths = <<>>
    /\ globalPageIndex = 0
    /\ familyResult = NONE
    /\ familyName = ""
    /\ sortIn = <<>>
    /\ sortOut = <<>>
    /\ rpc = "idle"
    /\ useFamily = FALSE
    /\ fontFiles = <<>>
    /\ fileIdx = 0
    /\ fontFamilies = <<>>
    /\ famIdx = 0
    /\ results = <<>>
    /\ adjIdx = 0
    /\ info = NONE
    /\ lastCall = NONE
    /\ adjustWrites = {}
    /\ exitCode = NONE

\* genFont up to the generateBMFont call (85-135, 152-158)
genFont ==
    /\ pc = "idle"
    /\ \E ft \in FieldTypes : fieldType' = ft
    /\ pc' = "rasterizing"
    /\ UNCHANGED <<runVars, textures, files, originalPaths, tempPaths, layout, canvas,
                   stitchResult, console, result, planIn, planOut,
                   familyVars>>

\* the callback with err set (160-162)
rasterizeError ==
    /\ pc = "rasterizing"
    /\ pc' = "rejected"
    /\ UNCHANGED <<runVars, fieldType, textures, files, originalPaths, tempPaths, layout,
                   canvas, stitchResult, console, result, planIn, planOut,
                   familyVars>>

\* the callback with textures and font: save the pages and the document
\* (165-183); a job of at most one page resolves at once (214-221)
saveTextures ==
    /\ pc = "rasterizing"
    /\ \E texs \in SeqsUpTo(PageSizes, MaxPages) :
       \E chars \in SeqsUpTo(Glyphs(MaxPages), MaxChars) :
         LET n == Len(texs)
             paths == [k \in 1..n |-> textureFileName(fieldType, n, k - 1)]
             saved == [name \in RangeOf(paths) |->
                          LET k == CHOOSE j \in 1..n :
                                     /\ paths[j] = name
                                     /\ \A i \in 1..n : paths[i] = name => i <= j
                          IN  textureBuffer(texs[k], k - 1)]
         IN  /\ textures' = texs
             /\ originalPaths' = paths
             /\ tempPaths' = IF n > 1 THEN paths ELSE <<>>
             /\ files' = writeFile(saved @@ files, jsonName(fieldType),
                                   JSONstringify(rasterDocument(texs, chars, fontName)))
             /\ IF n > 1
                THEN /\ pc' = "stitching"
                     /\ result' = result
                ELSE /\ pc' = "resolved"
                     /\ result' = [stitched |-> FALSE,
                                   pngPath |-> IF n = 0 THEN "undefined" ELSE paths[1],
                                   originalPaths |-> paths]
    /\ UNCHANGED <<runVars, fieldType, layout, canvas, stitchResult, console, planIn, planOut,
                   familyVars>>

\* await stitchTextures(tempPaths, jsonPath, ...) (189-195, 279-339)
stitchTextures ==
    /\ pc = "stitching"
    /\ LET fontData == JSONparse(files[jsonName(fieldType)])
           images == [k \in DOMAIN tempPaths |-> loadImage(files[tempPaths[k]])]
           lay == calculateOptimalLayout(
                      [k \in DOMAIN images |->
                          [width |-> images[k].width, height |-> images[k].height]])
           cv == drawAll(createCanvas(lay.width, lay.height), images, lay, 1)
       IN  /\ layout' = lay
           /\ canvas' = cv
           /\ files' = writeFile(files, pngName(fieldType), toBuffer(cv))
           /\ console' = console \o remapWarnings(fontData, lay)
           /\ stitchResult' = [stitchedImagePath |-> pngName(fieldType),
                               updatedFontData |-> stitchedFontData(fontData, lay, fieldType)]
    /\ pc' = "stitched"
    /\ UNCHANGED <<runVars, fieldType, textures, originalPaths, tempPaths, result,
                   planIn, planOut,
                   familyVars>>

\* fs.writeFileSync(jsonPath, JSON.stringify(stitchResult.updatedFontData)) (198)
writeUpdatedJson ==
    /\ pc = "stitched"
    /\ files' = writeFile(files, jsonName(fieldType),
                          JSONstringify(stitchResult.updatedFontData))
    /\ pc' = "written"
    /\ UNCHANGED <<runVars, fieldType, textures, originalPaths, tempPaths, layout, canvas,
                   stitchResult, console, result, planIn, planOut,
                   familyVars>>

\* delete the per-page files and resolve (201-213)
cleanUp ==
    /\ pc = "written"
    /\ files' = unlinkIfExists(files, RangeOf(tempPaths))
    /\ result' = [stitched |-> TRUE,
                  pngPath |-> stitchResult.stitchedImagePath,
                  originalPaths |-> originalPaths]
    /\ pc' = "resolved"
    /\ UNCHANGED <<runVars, fieldType, textures, originalPaths, tempPaths, layout, canvas,
                   stitchResult, console, planIn, planOut,
                   familyVars>>

Next ==
    \/ genFont
    \/ rasterizeError
    \/ saveTextures
    \/ stitchTextures
    \/ writeUpdatedJson
    \/ cleanUp

Spec == Init /\ [][Next]_vars

-----------------------------------------------------------------------------
(* A direct call of the layout planner *)

InitLayout ==
    /\ Init

planLayout ==
    /\ planOut = NONE
    /\ \E texs \in SeqsUpTo(PageSizes, MaxLayoutPages) :
         /\ Len(texs) >= 1
         /\ planIn' = texs
         /\ planOut' = calculateOptimalLayout(texs)
    /\ UNCHANGED <<runVars, stitchVars, familyVars>>

NextLayout ==
    \/ planLayout

SpecLayout == InitLayout /\ [][NextLayout]_vars

-----------------------------------------------------------------------------
(* Family generation: src/unnamed/part_000 *)

MaxStyles == 3         \* font files of one family
MaxStylePages == 2     \* pages one style's rasterization returns

FamilyNames == {"Ubuntu"}
StyleLabels == {"Bold", "Italic", "Regular"}

\* textureWidth / textureHeight of family mode (part_000 226-227)
FamilyTextureSize == 2048

\* String.prototype.toLowerCase on the style labels of the model
toLowerCase(s) ==
    CASE s = "Regular" -> "regular"
      [] s = "Bold"    -> "bold"
      [] s = "Italic"  -> "italic"
      [] OTHER         -> s

\* a.localeCompare(b) on the style labels of the model: letters first,
\* lower case before upper case on a tie
localeCompare(a, b) ==
    LET rank(l) == CASE l = "Bold" -> 1 [] l = "Italic" -> 2
                     [] l = "regular" -> 3 [] l = "Regular" -> 4
    IN  IF rank(a) < rank(b) THEN -1 ELSE IF rank(a) > rank(b) THEN 1 ELSE 0

\* the comparator handed to fonts.sort (part_000 185-191)
compareFonts_caseSensitive(a, b) ==
    IF a.style = "Regular" THEN -1
    ELSE IF b.style = "Regular" THEN 1
    ELSE localeCompare(a.style, b.style)

compareFonts(a, b) ==
    IF toLowerCase(a.style) = "regular" THEN -1
    ELSE IF toLowerCase(b.style) = "regular" THEN 1
    ELSE localeCompare(a.style, b.style)

\* Array.prototype.sort as Node runs it on a short array: the leading run is
\* found (and reversed when it descends), then every later element is placed
\* by binary insertion, each step asking the comparator
RECURSIVE countRun(_, _, _)
countRun(e, idx, descending) ==
    IF idx > Len(e) THEN idx - 1
    ELSE LET order == compareFonts(e[idx], e[idx - 1])
         IN  IF (descending /\ order >= 0) \/ (~descending /\ order < 0)
             THEN idx - 1
             ELSE countRun(e, idx + 1, descending)

reverseRange(e, n) ==
    [k \in 1..Len(e) |-> IF k <= n THEN e[n + 1 - k] ELSE e[k]]

RECURSIVE binarySearch(_, _, _, _)
binarySearch(e, pivot, left, right) ==
    IF left >= right THEN left
    ELSE LET mid == left + ((right - left) \div 2)
         IN  IF compareFonts(pivot, e[mid]) < 0
             THEN binarySearch(e, pivot, left, mid)
             ELSE binarySearch(e, pivot, mid + 1, right)

insertSorted(e, start) ==
    LET pivot == e[start]
        pos == binarySearch(e, pivot, 1, start)
    IN  [k \in 1..Len(e) |->
            IF k < pos THEN e[k]
            ELSE IF k = pos THEN pivot
            ELSE IF k <= start THEN e[k - 1]
            ELSE e[k]]

RECURSIVE binaryInsertionSort(_, _)
binaryInsertionSort(e, start) ==
    IF start > Len(e) THEN e
    ELSE binaryInsertionSort(insertSorted(e, start), start + 1)

\* fonts.sort(...) of genFontsByFamily (185-191)
sortFonts(e) ==
    IF Len(e) < 2 THEN e
    ELSE LET descending == compareFonts(e[2], e[1]) < 0
             run == countRun(e, 3, descending)
             made == IF descending THEN reverseRange(e, run) ELSE e
         IN  binaryInsertionSort(made, run + 1)

\* the font files of the family, each with the style read from it
fontsOf(styles) ==
    [k \in DOMAIN styles |->
        [style |-> styles[k], path |-> "font-src/" \o ToString(k) \o ".ttf"]]

individualBaseName(style, ft) == familyName \o "-" \o style \o "." \o ft
paginatedName(base, index) == base \o "_" \o ToString(index) \o ".png"
familyPageName(ft, index) == familyName \o "." \o ft \o "_" \o ToString(index) \o ".png"
familyJsonName(ft) == familyName \o "." \o ft \o ".json"

\* the file name the paginated generateFont gives texture `index` out of n
\* (part_000 491-493)
pagedTextureFileName(base, n, index) ==
    IF n > 1 THEN paginatedName(base, index) ELSE base \o ".png"

\* file.startsWith(`${base}_`) && file.endsWith('.png'), for the names the
\* destination directory can hold
isPaginatedFile(file, base) ==
    \E k \in 0..MaxStylePages : file = paginatedName(base, k)

\* files.filter(...).sort(): the paginated files of a style in name order
\* (name order is index order below ten pages)
paginatedFilesOf(listing, base) ==
    SelectSeq([k \in 1..(MaxStylePages + 1) |-> paginatedName(base, k - 1)],
              LAMBDA name : name \in listing)

\* the pages and the document the rasterizer returns for one style
styleTextures(n) ==
    [k \in 1..n |-> [width |-> FamilyTextureSize, height |-> FamilyTextureSize]]

styleChars(n) ==
    IF n = 0 THEN <<>>
    ELSE << [id |-> 65, page |-> n - 1, x |-> 10, y |-> 10,
             width |-> GlyphSize, height |-> GlyphSize,
             xoffset |-> 0, yoffset |-> 10, xadvance |-> GlyphSize] >>

\* texture.texture of a style's page: the pixels of <<path, index>>
styleTextureBuffer(path, index) ==
    [kind |-> "png", width |-> FamilyTextureSize, height |-> FamilyTextureSize,
     font |-> path, page |-> index]

\* the font files a run of the generator finds in font-src, in the order of
\* the directory listing.  `stem` is fontFileName.split('.')[0] and `head` is
\* path.parse(fontFile).name.split('-')[0]; `names` is what opentype reads from
\* the name table and `os2` what it reads from the OS/2 table and the head
\* table (NONE: the font has no OS/2 table); `pages` and `json` say what the
\* rasterizer answers for the font
Metrics1900 == [ascender |-> 1900, descender |-> -500, lineGap |-> 100, unitsPerEm |-> 2048]
Metrics1000 == [ascender |-> 1900, descender |-> -500, lineGap |-> 100, unitsPerEm |-> 1000]

FontCatalogue ==
    << [file |-> "Garbled-Regular.ttf", stem |-> "Garbled-Regular", head |-> "Garbled",
        exists |-> TRUE, names |-> [fontFamily |-> "Garbled", fontStyle |-> "Regular"],
        os2 |-> Metrics1900, pages |-> 1, json |-> FALSE],
       [file |-> "Legacy-Regular.ttf", stem |-> "Legacy-Regular", head |-> "Legacy",
        exists |-> TRUE, names |-> [fontFamily |-> "Legacy", fontStyle |-> "Regular"],
        os2 |-> NONE, pages |-> 1, json |-> TRUE],
       [file |-> "Missing-Regular.ttf", stem |-> "Missing-Regular", head |-> "Missing",
        exists |-> FALSE, names |-> NONE,
        os2 |-> NONE, pages |-> 1, json |-> TRUE],
       [file |-> "Noto-Regular.ttf", stem |-> "Noto-Regular", head |-> "Noto",
        exists |-> TRUE, names |-> [fontFamily |-> "Noto", fontStyle |-> "Regular"],
        os2 |-> Metrics1900, pages |-> 2, json |-> TRUE],
       [file |-> "Ubuntu-Bold.ttf", stem |-> "Ubuntu-Bold", head |-> "Ubuntu",
        exists |-> TRUE, names |-> [fontFamily |-> "Ubuntu", fontStyle |-> "Bold"],
        os2 |-> Metrics1900, pages |-> 1, json |-> TRUE],
       [file |-> "Ubuntu-Italic.ttf", stem |-> "Ubuntu-Italic", head |-> "Ubuntu",
        exists |-> TRUE, names |-> [fontFamily |-> "Ubuntu", fontStyle |-> "Italic"],
        os2 |-> Metrics1000, pages |-> 1, json |-> TRUE],
       [file |-> "Ubuntu-Regular.otf", stem |-> "Ubuntu-Regular", head |-> "Ubuntu",
        exists |-> TRUE, names |-> [fontFamily |-> "Ubuntu", fontStyle |-> "Regular"],
        os2 |-> Metrics1000, pages |-> 1, json |-> TRUE],
       [file |-> "Ubuntu-Regular.ttf", stem |-> "Ubuntu-Regular", head |-> "Ubuntu",
        exists |-> TRUE, names |-> [fontFamily |-> "Ubuntu", fontStyle |-> "Regular"],
        os2 |-> Metrics1900, pages |-> 2, json |-> TRUE] >>

\* path.join(fontSrcDir, fontFile)
fontSrcPath(file) == "font-src/" \o file

inCatalogue(path) == \E k \in DOMAIN FontCatalogue : fontSrcPath(FontCatalogue[k].file) = path
catalogued(path) ==
    FontCatalogue[CHOOSE k \in DOMAIN FontCatalogue : fontSrcPath(FontCatalogue[k].file) = path]

\* overrides.json: the distanceRange overrides by font or family name, 0 for
\* a name without one
overridesDistanceRange(name, ft) ==
    IF name \in {"Noto", "Noto-Regular"}
    THEN (IF ft = "msdf" THEN 3 ELSE 6)
    ELSE 0

\* overrides[name]?.[fieldType]?.distanceRange || 4 (part_000 226, 424-425)
distance_range(name, ft) == OrDefault(overridesDistanceRange(name, ft), 4)

\* the numbers of pages the rasterizer can return for a font
rasterPages(path) ==
    IF inCatalogue(path) THEN {catalogued(path).pages} ELSE 0..MaxStylePages

\* font.data of the rasterizer's callback: the serialized document, or text
\* that is not JSON
rasterData(path, doc) ==
    IF inCatalogue(path) /\ ~catalogued(path).json
    THEN [kind |-> "text", data |-> "not json"]
    ELSE JSONstringify(doc)

\* JSON.parse accepts the content
parsable(content) == content.kind = "json"

\* the paginated generateFont (part_000 474-513): the directory after it
\* wrote n pages and the document of the font at `path` under `base`
generateFontFiles(fs, path, base, n, options) ==
    LET written == [name \in {pagedTextureFileName(base, n, k - 1) : k \in 1..n} |->
                       styleTextureBuffer(path,
                           IF n > 1
                           THEN CHOOSE k \in 0..(n - 1) : paginatedName(base, k) = name
                           ELSE 0)]
        doc == rasterDocument(styleTextures(n), styleChars(n), base)
    IN  writeFile(written @@ fs, base \o ".json",
                  rasterData(path,
                      [doc EXCEPT !.distanceField =
                          [distanceRange |-> options.distanceRange]]))

\* fs.copyFileSync
copyFile(fs, from, to) == writeFile(fs, to, fs[from])

\* the copy loop of one style (part_000 306-315): page k of the style becomes
\* family page start + k
RECURSIVE copyPages(_, _, _, _, _)
copyPages(fs, pages, ft, start, k) ==
    IF k > Len(pages) THEN fs
    ELSE copyPages(copyFile(fs, pages[k], familyPageName(ft, start + k - 1)),
                   pages, ft, start, k + 1)

\* style.pageCount || 1
pageCountOr1(style) ==
    IF "pageCount" \in DOMAIN style /\ style.pageCount # 0 THEN style.pageCount ELSE 1

\* the pageRange string of a style entry (part_000 380-382)
pageRange_startOnly(style) == ToString(style.pageIndex)

pageRange(style) ==
    IF "pageCount" \in DOMAIN style /\ style.pageCount # 0 /\ style.pageCount > 1
    THEN ToString(style.pageIndex) \o "-"
            \o ToString(style.pageIndex + style.pageCount - 1)
    ELSE ToString(style.pageIndex)

\* the family document built from the first style's document (part_000 364-383)
familyDocument(template, pngPaths, styles) ==
    ("styles" :> [k \in DOMAIN styles |->
                    [style |-> styles[k].fontStyle,
                     pageIndex |-> styles[k].pageIndex,
                     pageCount |-> pageCountOr1(styles[k]),
                     pageRange |-> pageRange(styles[k])]])
    @@ [template EXCEPT !.info = [template.info EXCEPT !.face = familyName],
                        !.pages = pngPaths]

InitFamily ==
    /\ Init

\* genFontsByFamily calls generateFontFamily(familyName, sortedFonts, fieldType)
\* (part_000 181-193); generateFontFamily up to its first loop (205-248)
startFamily ==
    /\ fpc = "idle"
    /\ \E ft \in FieldTypes : fieldType' = ft
    /\ \E name \in FamilyNames : familyName' = name
    /\ \E styles \in SeqsUpTo(StyleLabels, MaxStyles) :
         /\ Len(styles) >= 1
         /\ fonts' = sortFonts(fontsOf(styles))
    /\ loopI' = 0
    /\ fpc' = "generating"
    /\ UNCHANGED <<sortIn, sortOut, batchVars, pc, textures, files, originalPaths, tempPaths, layout, canvas,
                   stitchResult, console, result, planIn, planOut, styleInfos,
                   individualPngPaths, combinedJsonData, familyPngPaths,
                   globalPageIndex, familyResult>>

\* one pass of the first loop (part_000 250-283): rasterize style i, save its
\* pages and document, and keep the first style's document as the template
generateStyle ==
    /\ fpc = "generating"
    /\ \E n \in rasterPages(fonts[loopI + 1].path) :
         LET font == fonts[loopI + 1]
             base == individualBaseName(font.style, fieldType)
             options == [distanceRange |-> distance_range(familyName, fieldType)]
             after == generateFontFiles(files, font.path, base, n, options)
             thrown == loopI = 0 /\ (base \o ".json") \in DOMAIN after
                          /\ ~parsable(after[base \o ".json"])
         IN  /\ files' = after
             /\ styleInfos' = Append(styleInfos,
                                     [fontStyle |-> font.style, fontPath |-> font.path,
                                      pageIndex |-> loopI])
             /\ individualPngPaths' = individualPngPaths
                    \o [k \in 1..n |-> pagedTextureFileName(base, n, k - 1)]
             /\ combinedJsonData' =
                    IF loopI = 0 /\ ~thrown
                    THEN IF (base \o ".json") \in DOMAIN after
                         THEN JSONparse(after[base \o ".json"])
                         ELSE combinedJsonData
                    ELSE combinedJsonData
             /\ IF thrown
                THEN /\ loopI' = loopI
                     /\ fpc' = "rejected"
                ELSE IF loopI + 1 < Len(fonts)
                THEN /\ loopI' = loopI + 1
                     /\ fpc' = "generating"
                ELSE /\ loopI' = 0
                     /\ fpc' = "relabeling"
    /\ UNCHANGED <<runVars, pc, fieldType, textures, originalPaths, tempPaths, layout, canvas,
                   stitchResult, console, result, planIn, planOut, fonts,
                   familyPngPaths, globalPageIndex, familyResult>>

\* the rasterizer reports an error for style i: generateFont rejects and the
\* await in generateFontFamily throws (part_000 266, 483-485)
generateStyleError_rollback ==
    /\ fpc = "generating"
    /\ fpc' = "rejected"
    /\ files' = unlinkIfExists(files, RangeOf(individualPngPaths))
    /\ UNCHANGED <<runVars, pc, fieldType, textures, originalPaths, tempPaths, layout,
                   canvas, stitchResult, console, result, planIn, planOut, fonts,
                   loopI, styleInfos, individualPngPaths, combinedJsonData,
                   familyPngPaths, globalPageIndex, familyResult>>

generateStyleError ==
    /\ fpc = "generating"
    /\ fpc' = "rejected"
    /\ UNCHANGED <<runVars, pc, fieldType, textures, files, originalPaths, tempPaths, layout,
                   canvas, stitchResult, console, result, planIn, planOut, fonts,
                   loopI, styleInfos, individualPngPaths, combinedJsonData,
                   familyPngPaths, globalPageIndex, familyResult>>

\* one pass of the second loop (part_000 290-358): copy the pages of style i
\* to family pages, record its page range, delete its own files
relabelStyle ==
    /\ fpc = "relabeling"
    /\ LET font == fonts[loopI + 1]
           base == individualBaseName(font.style, fieldType)
           listing == DOMAIN files
           paginated == paginatedFilesOf(listing, base)
           startPageIndex == globalPageIndex
           stylePagesCount == IF Len(paginated) > 0 THEN Len(paginated) ELSE 1
           copied ==
               IF Len(paginated) > 0
               THEN Len(paginated)
               ELSE IF (base \o ".png") \in DOMAIN files THEN 1 ELSE 0
           afterCopy ==
               IF Len(paginated) > 0
               THEN copyPages(files, paginated, fieldType, startPageIndex, 1)
               ELSE IF (base \o ".png") \in DOMAIN files
                    THEN copyFile(files, base \o ".png",
                                  familyPageName(fieldType, startPageIndex))
                    ELSE files
       IN  /\ familyPngPaths' = familyPngPaths
                  \o [k \in 1..copied |-> familyPageName(fieldType, startPageIndex + k - 1)]
           /\ globalPageIndex' = globalPageIndex + copied
           /\ styleInfos' = [styleInfos EXCEPT ![loopI + 1] =
                                [fontStyle |-> font.style, fontPath |-> font.path,
                                 pageIndex |-> startPageIndex,
                                 pageCount |-> stylePagesCount]]
           /\ files' = unlinkIfExists(afterCopy,
                           {base \o ".png", base \o ".json"}
                               \cup {f \in listing : isPaginatedFile(f, base)})
    /\ IF loopI + 1 < Len(fonts)
       THEN /\ loopI' = loopI + 1
            /\ fpc' = "relabeling"
       ELSE /\ loopI' = loopI + 1
            /\ fpc' = "writing"
    /\ UNCHANGED <<runVars, pc, fieldType, textures, originalPaths, tempPaths, layout, canvas,
                   stitchResult, console, result, planIn, planOut, fonts,
                   individualPngPaths, combinedJsonData, familyResult>>

\* the end of generateFontFamily (part_000 360-399): write the family
\* document and return the descriptor, or return null without a template
writeFamilyJson ==
    /\ fpc = "writing"
    /\ IF combinedJsonData # NULL
       THEN /\ files' = writeFile(files, familyJsonName(fieldType),
                            JSONstringify(familyDocument(combinedJsonData,
                                                         familyPngPaths, styleInfos)))
            /\ combinedJsonData' = familyDocument(combinedJsonData,
                                                  familyPngPaths, styleInfos)
            /\ familyResult' = [fontFamily |-> familyName,
                                fieldType |-> fieldType,
                                styles |-> styleInfos,
                                jsonPath |-> familyJsonName(fieldType),
                                pngPaths |-> familyPngPaths]
       ELSE /\ familyResult' = NULL
            /\ UNCHANGED <<files, combinedJsonData>>
    /\ fpc' = "returned"
    /\ UNCHANGED <<runVars, pc, fieldType, textures, originalPaths, tempPaths, layout, canvas,
                   stitchResult, console, result, planIn, planOut, fonts, loopI,
                   styleInfos, individualPngPaths, familyPngPaths, globalPageIndex>>

NextFamily ==
    \/ startFamily
    \/ generateStyle
    \/ generateStyleError
    \/ relabelStyle
    \/ writeFamilyJson

SpecFamily == InitFamily /\ [][NextFamily]_vars

-----------------------------------------------------------------------------
(* The style ordering of genFontsByFamily on its own *)

MaxSortLen == 4        \* font files of the family whose styles are sorted

\* labels a font's style name can carry; "regular" is the lower-case spelling
SortLabels == {"Bold", "Italic", "Regular", "regular"}

InitSort ==
    /\ Init

\* fonts.sort(...) on the fonts of one family (part_000 185-191)
sortFamilyFonts ==
    /\ \E styles \in SeqsUpTo(SortLabels, MaxSortLen) :
         /\ sortIn' = fontsOf(styles)
         /\ sortOut' = sortFonts(fontsOf(styles))
    /\ UNCHANGED <<familyName, batchVars, stitchVars, planVars, familyVars>>

NextSort ==
    \/ sortFamilyFonts

SpecSort == InitSort /\ [][NextSort]_vars

-----------------------------------------------------------------------------
(* The metrics step: src/dist/genFont.js 99-270 (adjustFont.ts) *)

\* path.join(dstDir, metricsSubDir, `${name}.metrics.json`)
metricsFileName(name) == "metrics/" \o name \o ".metrics.json"

\* the fontMetrics record built from font.tables.os2 and font.unitsPerEm of
\* the font at `path`; NONE when opentype.load rejects or the font has no
\* OS/2 table, and building the record throws
fontMetricsOf(path) == IF inCatalogue(path) THEN catalogued(path).os2 ELSE NONE

\* char.yoffset = char.yoffset - pad - pad, for every char
charsLifted(chars, pad) ==
    [k \in DOMAIN chars |-> [chars[k] EXCEPT !.yoffset = chars[k].yoffset - pad - pad]]

\* the document adjustSingleFont writes back (dist/genFont.js 133-155)
adjustedSingleDocument_twice(json, fontMetrics) ==
    LET pad == json.distanceField.distanceRange \div 2
    IN  ("lightningMetrics" :> fontMetrics)
        @@ [json EXCEPT !.common.base = json.common.base - pad - pad,
                        !.chars = charsLifted(json.chars, pad + pad)]

adjustedSingleDocument(json, fontMetrics) ==
    LET pad == json.distanceField.distanceRange \div 2
    IN  ("lightningMetrics" :> fontMetrics)
        @@ [json EXCEPT !.common.base = json.common.base - pad,
                        !.chars = charsLifted(json.chars, pad)]

\* the document adjustFontFamily writes back (dist/genFont.js 191-223)
adjustedFamilyDocument(json, fontMetrics) ==
    LET distanceField == IF json.distanceField.distanceRange # 0
                         THEN json.distanceField.distanceRange
                         ELSE 4
        pad == distanceField \div 2
    IN  ("lightningMetrics" :> fontMetrics)
        @@ [json EXCEPT !.common.base = IF json.common.base # 0
                                        THEN json.common.base - pad
                                        ELSE json.common.base,
                        !.chars = charsLifted(json.chars, pad)]

\* adjustSingleFont (dist/genFont.js 128-172): whether it throws, the
\* directory it leaves and the names of the files it wrote
adjustSingleFont(fs, fontInfo) ==
    LET fontMetrics == fontMetricsOf(fontInfo.fontPath)
        metricsFilePath == metricsFileName(fontInfo.fontName)
    IN  IF fontMetrics = NONE \/ ~parsable(fs[fontInfo.jsonPath])
        THEN [threw |-> TRUE, fs |-> fs, writes |-> {}]
        ELSE [threw |-> FALSE,
              fs |-> writeFile(writeFile(fs, metricsFilePath, JSONstringify(fontMetrics)),
                               fontInfo.jsonPath,
                               JSONstringify(adjustedSingleDocument(
                                   JSONparse(fs[fontInfo.jsonPath]), fontMetrics))),
              writes |-> {metricsFilePath, fontInfo.jsonPath}]

\* allStyleMetrics of adjustFontFamily (dist/genFont.js 231-241)
allStyleMetricsOf(styles) ==
    [k \in DOMAIN styles |->
        [style |-> styles[k].fontStyle, metrics |-> fontMetricsOf(styles[k].fontPath)]]

\* allStyleMetrics.every(...) against the first style (dist/genFont.js 244-250)
allMetricsIdentical_ascenderOnly(allStyleMetrics) ==
    \A k \in DOMAIN allStyleMetrics :
        allStyleMetrics[k].metrics.ascender = allStyleMetrics[1].metrics.ascender

allMetricsIdentical(allStyleMetrics) ==
    \A k \in DOMAIN allStyleMetrics :
        /\ allStyleMetrics[k].metrics.ascender = allStyleMetrics[1].metrics.ascender
        /\ allStyleMetrics[k].metrics.descender = allStyleMetrics[1].metrics.descender
        /\ allStyleMetrics[k].metrics.lineGap = allStyleMetrics[1].metrics.lineGap
        /\ allStyleMetrics[k].metrics.unitsPerEm = allStyleMetrics[1].metrics.unitsPerEm

\* the metrics files adjustFontFamily writes (dist/genFont.js 252-264): one
\* for the family, or one per style; of two styles writing the same name
\* the later one's content is kept
familyMetricsFiles(fontFamily, allStyleMetrics) ==
    IF allMetricsIdentical(allStyleMetrics)
    THEN (metricsFileName(fontFamily) :> JSONstringify(allStyleMetrics[1].metrics))
    ELSE LET nameOf(k) == metricsFileName(fontFamily \o "-" \o allStyleMetrics[k].style)
             last(name) == CHOOSE k \in DOMAIN allStyleMetrics :
                               /\ nameOf(k) = name
                               /\ \A j \in DOMAIN allStyleMetrics :
                                      nameOf(j) = name => j <= k
         IN  [name \in {nameOf(k) : k \in DOMAIN allStyleMetrics} |->
                 JSONstringify(allStyleMetrics[last(name)].metrics)]

\* adjustFontFamily (dist/genFont.js 177-270)
adjustFontFamily(fs, fontInfo) ==
    LET json == JSONparse(fs[fontInfo.jsonPath])
        allStyleMetrics == allStyleMetricsOf(fontInfo.styles)
        metricsFiles == familyMetricsFiles(fontInfo.fontFamily, allStyleMetrics)
    IN  IF Len(fontInfo.styles) = 0
        THEN [threw |-> FALSE, fs |-> fs, writes |-> {}]
        ELSE IF \E k \in DOMAIN allStyleMetrics : allStyleMetrics[k].metrics = NONE
        THEN [threw |-> TRUE, fs |-> fs, writes |-> {}]
        ELSE [threw |-> FALSE,
              fs |-> writeFile(metricsFiles @@ fs, fontInfo.jsonPath,
                               JSONstringify(adjustedFamilyDocument(
                                   json, allStyleMetrics[1].metrics))),
              writes |-> DOMAIN metricsFiles \cup {fontInfo.jsonPath}]

\* adjustFont (dist/genFont.js 114-123): 'styles' in fontInfo picks the variant
adjustFont(fs, fontInfo) ==
    IF "styles" \in DOMAIN fontInfo
    THEN adjustFontFamily(fs, fontInfo)
    ELSE adjustSingleFont(fs, fontInfo)

-----------------------------------------------------------------------------
(* A run of the generator: src/dist/genFont.js 307-383 (index.ts), with
   genFont and genFontsByFamily of src/unnamed/part_000 *)

MaxRunFonts == 3       \* font files in font-src

\* the listing of font-src: the catalogue's fonts at the positions in `chosen`
listingOf(chosen) ==
    LET names == [k \in DOMAIN FontCatalogue |-> FontCatalogue[k].file]
        picked(file) == \E k \in chosen : FontCatalogue[k].file = file
    IN  SelectSeq(names, picked)

\* fs.existsSync(fontPath) for a font file
fontExists(path) == inCatalogue(path) /\ catalogued(path).exists

\* getFontInfo (part_000 100-142): the family and style read from the font,
\* NONE for the empty object
getFontInfo(path) == catalogued(path).names

\* genFont (part_000 407-472) when the rasterizer answers with n pages: the
\* value it returns, the directory it leaves, and whether generateFont ran
genFontCall_unchecked(fs, fontFileName, ft, n) ==
    LET fontPath == fontSrcPath(fontFileName)
        fontNameNoExt == catalogued(fontPath).stem
        base == fontNameNoExt \o "." \o ft
        pngPaths == [k \in 1..n |-> pagedTextureFileName(base, n, k - 1)]
    IN  [info |-> [fontName |-> fontNameNoExt, fieldType |-> ft,
                   jsonPath |-> base \o ".json",
                   pngPath |-> IF n > 0 THEN pngPaths[1] ELSE base \o ".png",
                   pngPaths |-> pngPaths, fontPath |-> fontPath,
                   stylePageIndex |-> 0],
         fs |-> generateFontFiles(fs, fontPath, base, n,
                    [distanceRange |-> distance_range(fontNameNoExt, ft)]),
         rasterized |-> TRUE]

genFontCall(fs, fontFileName, ft, n) ==
    LET fontPath == fontSrcPath(fontFileName)
        fontNameNoExt == catalogued(fontPath).stem
        base == fontNameNoExt \o "." \o ft
        pngPaths == [k \in 1..n |-> pagedTextureFileName(base, n, k - 1)]
    IN  IF ft # "msdf" /\ ft # "ssdf"
        THEN [info |-> NULL, fs |-> fs, rasterized |-> FALSE]
        ELSE IF ~fontExists(fontPath)
        THEN [info |-> NULL, fs |-> fs, rasterized |-> FALSE]
        ELSE [info |-> [fontName |-> fontNameNoExt, fieldType |-> ft,
                        jsonPath |-> base \o ".json",
                        pngPath |-> IF n > 0 THEN pngPaths[1] ELSE base \o ".png",
                        pngPaths |-> pngPaths, fontPath |-> fontPath,
                        stylePageIndex |-> 0],
              fs |-> generateFontFiles(fs, fontPath, base, n,
                         [distanceRange |-> distance_range(fontNameNoExt, ft)]),
              rasterized |-> TRUE]

\* where the individual loop of generateFonts goes after the job (i, ft)
\* (dist/genFont.js 371-377)
nextJob(i, ft, n) ==
    IF ft = "msdf" THEN [rpc |-> "individual", fileIdx |-> i, fieldType |-> "ssdf"]
    ELSE IF i < n THEN [rpc |-> "individual", fileIdx |-> i + 1, fieldType |-> "msdf"]
    ELSE [rpc |-> "done", fileIdx |-> i, fieldType |-> ft]

\* where generateFonts goes after the adjustFont loop of one field type
\* (dist/genFont.js 350-366)
afterAdjustLoop(ft) ==
    IF ft = "msdf" THEN [rpc |-> "callFamilies", fieldType |-> "ssdf"]
    ELSE [rpc |-> "done", fieldType |-> ft]

\* where generateFonts goes when genFontsByFamily has returned `res`
afterFamilies(res, ft) ==
    IF Len(res) > 0 THEN [rpc |-> "adjusting", fieldType |-> ft]
    ELSE afterAdjustLoop(ft)

\* the grouping loop of genFontsByFamily (part_000 154-176): the map
\* fontFamilies in insertion order, built from the files from position k on
RECURSIVE groupFonts(_, _, _)
groupFonts(listing, k, acc) ==
    IF k > Len(listing) THEN acc
    ELSE LET fontFile == listing[k]
             fontPath == fontSrcPath(fontFile)
             fontInfo == getFontInfo(fontPath)
             family == IF fontInfo # NONE THEN fontInfo.fontFamily
                       ELSE catalogued(fontPath).head
             style == IF fontInfo # NONE THEN fontInfo.fontStyle ELSE "Regular"
             font == [style |-> style, path |-> fontPath]
         IN  IF ~fontExists(fontPath) THEN groupFonts(listing, k + 1, acc)
             ELSE IF \E j \in DOMAIN acc : acc[j].name = family
             THEN groupFonts(listing, k + 1,
                      [j \in DOMAIN acc |->
                          IF acc[j].name = family
                          THEN [acc[j] EXCEPT !.fonts = Append(acc[j].fonts, font)]
                          ELSE acc[j]])
             ELSE groupFonts(listing, k + 1,
                      Append(acc, [name |-> family, fonts |-> <<font>>]))

InitRun ==
    /\ Init

\* generateFonts up to its first await (dist/genFont.js 307-352, 368-371):
\* the listing of font-src and the mode chosen on the command line
generateFonts ==
    /\ rpc = "idle"
    /\ \E family \in BOOLEAN : useFamily' = family
    /\ \E chosen \in SUBSET (DOMAIN FontCatalogue) :
         /\ Cardinality(chosen) <= MaxRunFonts
         /\ fontFiles' = listingOf(chosen)
    /\ IF fontFiles' = <<>>
       THEN /\ rpc' = "exited"
            /\ exitCode' = 1
            /\ UNCHANGED <<fieldType, fileIdx>>
       ELSE /\ rpc' = IF useFamily' THEN "callFamilies" ELSE "individual"
            /\ fieldType' = "msdf"
            /\ fileIdx' = 1
            /\ exitCode' = NONE
    /\ UNCHANGED <<pc, textures, files, originalPaths, tempPaths, layout, canvas,
                   stitchResult, console, result, planVars,
                   fpc, fonts, loopI, styleInfos, individualPngPaths,
                   combinedJsonData, familyPngPaths, globalPageIndex, familyResult,
                   familyName, sortIn, sortOut, fontFamilies, famIdx, results,
                   adjIdx, info, lastCall, adjustWrites>>

\* one genFont call of the individual loop (dist/genFont.js 372, 375): when
\* it returns null the loop goes on to the next job
genFontJob ==
    /\ rpc = "individual"
    /\ \E n \in rasterPages(fontSrcPath(fontFiles[fileIdx])) :
         LET call == genFontCall(files, fontFiles[fileIdx], fieldType, n)
             next == IF call.info = NULL
                     THEN nextJob(fileIdx, fieldType, Len(fontFiles))
                     ELSE [rpc |-> "adjust", fileIdx |-> fileIdx, fieldType |-> fieldType]
         IN  /\ files' = call.fs
             /\ info' = call.info
             /\ lastCall' = [fontFileName |-> fontFiles[fileIdx],
                             fieldType |-> fieldType,
                             rasterized |-> call.rasterized]
             /\ rpc' = next.rpc
             /\ fileIdx' = next.fileIdx
             /\ fieldType' = next.fieldType
    /\ UNCHANGED <<pc, textures, originalPaths, tempPaths, layout, canvas,
                   stitchResult, console, result, planVars, familyVars,
                   familyName, sortIn, sortOut, useFamily, fontFiles, fontFamilies,
                   famIdx, results, adjIdx, adjustWrites, exitCode>>

\* the rasterizer reports an error to a genFont call of the individual loop:
\* generateFont rejects, genFont throws, and the catch of generateFonts ends
\* the process (part_000 483-485, dist/genFont.js 379-382)
genFontJobError ==
    /\ rpc = "individual"
    /\ fontExists(fontSrcPath(fontFiles[fileIdx]))
    /\ lastCall' = [fontFileName |-> fontFiles[fileIdx], fieldType |-> fieldType,
                    rasterized |-> TRUE]
    /\ rpc' = "exited"
    /\ exitCode' = 1
    /\ UNCHANGED <<stitchVars, planVars, familyVars, familyName, sortIn, sortOut,
                   useFamily, fontFiles, fileIdx, fontFamilies, famIdx, results,
                   adjIdx, info, adjustWrites>>

\* `if (font) await adjustFont(font)` of the individual loop
\* (dist/genFont.js 373, 376); a throw reaches the catch of generateFonts
adjustJob ==
    /\ rpc = "adjust"
    /\ LET done == adjustFont(files, info)
           next == nextJob(fileIdx, fieldType, Len(fontFiles))
       IN  IF done.threw
           THEN /\ rpc' = "exited"
                /\ exitCode' = 1
                /\ UNCHANGED <<files, adjustWrites, fileIdx, fieldType>>
           ELSE /\ files' = done.fs
                /\ adjustWrites' = done.writes
                /\ rpc' = next.rpc
                /\ fileIdx' = next.fileIdx
                /\ fieldType' = next.fieldType
                /\ UNCHANGED exitCode
    /\ UNCHANGED <<pc, textures, originalPaths, tempPaths, layout, canvas,
                   stitchResult, console, result, planVars, familyVars,
                   familyName, sortIn, sortOut, useFamily, fontFiles, fontFamilies,
                   famIdx, results, adjIdx, info, lastCall>>

\* genFontsByFamily(fontFiles, fieldType) up to its family loop
\* (dist/genFont.js 354, 362; part_000 150-178): group the fonts by family
genFontsByFamily ==
    /\ rpc = "callFamilies"
    /\ LET grouped == groupFonts(fontFiles, 1, <<>>)
           next == afterFamilies(<<>>, fieldType)
       IN  /\ fontFamilies' = grouped
           /\ results' = <<>>
           /\ IF Len(grouped) > 0
              THEN /\ rpc' = "families"
                   /\ famIdx' = 1
                   /\ UNCHANGED fieldType
              ELSE /\ rpc' = next.rpc
                   /\ fieldType' = next.fieldType
                   /\ UNCHANGED famIdx
    /\ UNCHANGED <<pc, textures, files, originalPaths, tempPaths, layout, canvas,
                   stitchResult, console, result, planVars, familyVars,
                   familyName, sortIn, sortOut, useFamily, fontFiles, fileIdx,
                   adjIdx, info, lastCall, adjustWrites, exitCode>>

\* one pass of the family loop up to the first rasterization (part_000
\* 181-193, 205-248): sort the family's fonts and call generateFontFamily
nextFamily ==
    /\ rpc = "families"
    /\ fpc = "idle"
    /\ familyName' = fontFamilies[famIdx].name
    /\ fonts' = sortFonts(fontFamilies[famIdx].fonts)
    /\ loopI' = 0
    /\ styleInfos' = <<>>
    /\ individualPngPaths' = <<>>
    /\ combinedJsonData' = NULL
    /\ familyPngPaths' = <<>>
    /\ globalPageIndex' = 0
    /\ familyResult' = NONE
    /\ fpc' = "generating"
    /\ UNCHANGED <<stitchVars, planVars, sortIn, sortOut, batchVars>>

\* generateFontFamily has returned (part_000 193-199): keep the descriptor,
\* go on with the next family or return the results to generateFonts
familyDone ==
    /\ rpc = "families"
    /\ fpc = "returned"
    /\ fpc' = "idle"
    /\ results' = IF familyResult # NULL THEN Append(results, familyResult) ELSE results
    /\ IF famIdx < Len(fontFamilies)
       THEN /\ famIdx' = famIdx + 1
            /\ UNCHANGED <<rpc, fieldType, adjIdx>>
       ELSE /\ rpc' = afterFamilies(results', fieldType).rpc
            /\ fieldType' = afterFamilies(results', fieldType).fieldType
            /\ adjIdx' = 1
            /\ UNCHANGED famIdx
    /\ UNCHANGED <<pc, textures, files, originalPaths, tempPaths, layout, canvas,
                   stitchResult, console, result, planVars,
                   fonts, loopI, styleInfos, individualPngPaths, combinedJsonData,
                   familyPngPaths, globalPageIndex, familyResult,
                   familyName, sortIn, sortOut, useFamily, fontFiles, fileIdx,
                   fontFamilies, info, lastCall, adjustWrites, exitCode>>

\* generateFontFamily has thrown: genFontsByFamily has no handler, so the
\* fault reaches the catch of generateFonts, which ends the process
\* (part_000 193, dist/genFont.js 379-382)
familyThrown ==
    /\ rpc = "families"
    /\ fpc = "rejected"
    /\ rpc' = "exited"
    /\ exitCode' = 1
    /\ UNCHANGED <<stitchVars, planVars, familyVars, familyName, sortIn, sortOut,
                   useFamily, fontFiles, fileIdx, fontFamilies, famIdx, results,
                   adjIdx, info, lastCall, adjustWrites>>

\* one pass of `for (const family of families) await adjustFont(family)`
\* (dist/genFont.js 356-359, 363-366)
adjustFamily ==
    /\ rpc = "adjusting"
    /\ LET done == adjustFont(files, results[adjIdx])
           next == afterAdjustLoop(fieldType)
       IN  IF done.threw
           THEN /\ rpc' = "exited"
                /\ exitCode' = 1
                /\ UNCHANGED <<files, adjustWrites, adjIdx, fieldType>>
           ELSE /\ files' = done.fs
                /\ adjustWrites' = done.writes
                /\ UNCHANGED exitCode
                /\ IF adjIdx < Len(results)
                   THEN /\ adjIdx' = adjIdx + 1
                        /\ UNCHANGED <<rpc, fieldType>>
                   ELSE /\ rpc' = next.rpc
                        /\ fieldType' = next.fieldType
                        /\ UNCHANGED adjIdx
    /\ UNCHANGED <<pc, textures, originalPaths, tempPaths, layout, canvas,
                   stitchResult, console, result, planVars, familyVars,
                   familyName, sortIn, sortOut, useFamily, fontFiles, fileIdx,
                   fontFamilies, famIdx, results, info, lastCall>>

NextRun ==
    \/ generateFonts
    \/ genFontJob
    \/ genFontJobError
    \/ adjustJob
    \/ genFontsByFamily
    \/ nextFamily
    \/ generateStyle
    \/ generateStyleError
    \/ relabelStyle
    \/ writeFamilyJson
    \/ familyDone
    \/ familyThrown
    \/ adjustFamily

SpecRun == InitRun /\ [][NextRun]_vars

-----------------------------------------------------------------------------
(* Properties of the layout planner, the compositor and the remapper *)

\* stitchTextures has returned and the document on disk is still the
\* rasterizer's
JustStitched == pc = "stitched"

\* the document the rasterizer produced, read back while it is still on disk
originalFontData == JSONparse(files[jsonName(fieldType)])

updatedFontData == stitchResult.updatedFontData

withinPage(g) ==
    /\ (g.page + 1) \in DOMAIN textures
    /\ 0 <= g.x /\ g.x + g.width <= textures[g.page + 1].width
    /\ 0 <= g.y /\ g.y + g.height <= textures[g.page + 1].height

withinMerged(g, doc) ==
    /\ 0 <= g.x /\ g.x + g.width <= doc.common.scaleW
    /\ 0 <= g.y /\ g.y + g.height <= doc.common.scaleH

\* C1: after a multi-page merge, every glyph whose rectangle lay within its
\* original page lies, remapped, within the merged canvas
\* (common.scaleW x common.scaleH), whatever the page sizes.
C1_RoundTripBounds ==
    JustStitched =>
        \A k \in DOMAIN originalFontData.chars :
            withinPage(originalFontData.chars[k])
                => withinMerged(updatedFontData.chars[k], updatedFontData)

RECURSIVE sumWidths(_, _)
sumWidths(texs, n) == IF n = 0 THEN 0 ELSE texs[n].width + sumWidths(texs, n - 1)

equalHeights(texs) == \A i, j \in DOMAIN texs : texs[i].height = texs[j].height

\* C2: for n >= 2 pages of equal height the planned canvas is as wide as
\* the pages together plus (n - 1) gutters of 2 pixels, and as high as a page.
C2_CanvasIsSumOfPages ==
    (planOut # NONE /\ Len(planIn) >= 2 /\ equalHeights(planIn)) =>
        /\ planOut.width = sumWidths(planIn, Len(planIn)) + (Len(planIn) - 1) * 2
        /\ planOut.height = planIn[1].height

rectsOverlap(a, b) ==
    /\ a.x < b.x + b.width /\ b.x < a.x + a.width
    /\ a.y < b.y + b.height /\ b.y < a.y + a.height

\* C3: a plan has one placement per input page, no two placements overlap,
\* their x grows strictly from left to right, and each lies inside the canvas.
C3_LayoutPlanInvariant ==
    planOut # NONE =>
        /\ Len(planOut.positions) = Len(planIn)
        /\ \A i, j \in DOMAIN planOut.positions :
              i < j => /\ ~rectsOverlap(planOut.positions[i], planOut.positions[j])
                       /\ planOut.positions[i].x < planOut.positions[j].x
        /\ \A i \in DOMAIN planOut.positions :
              /\ planOut.positions[i].x >= 0
              /\ planOut.positions[i].y >= 0
              /\ planOut.positions[i].x + planOut.positions[i].width <= planOut.width
              /\ planOut.positions[i].y + planOut.positions[i].height <= planOut.height

C3_Witness ==
    /\ planOut # NONE
    /\ Len(planIn) = 3
    /\ planOut.positions[3].x + planOut.positions[3].width = planOut.width
    /\ planOut.positions[2].x = planOut.positions[1].x + planOut.positions[1].width + 2

\* C4: after the compositor has drawn the pages, every pixel of every page
\* is on the canvas at the page's placement offset: not clipped, not scaled,
\* not overwritten by another page.
C4_LosslessTranslation ==
    JustStitched =>
        \A k \in DOMAIN textures :
            \A px \in 0..(textures[k].width - 1) :
                \A py \in 0..(textures[k].height - 1) :
                    /\ inCanvas(canvas, layout.positions[k].x + px,
                                layout.positions[k].y + py)
                    /\ canvasPixel(canvas, layout.positions[k].x + px,
                                   layout.positions[k].y + py) = <<k - 1, px, py>>

\* C5: a glyph whose page has a placement moves by the placement's offset
\* and lands on page 0.
C5_RemapAddsPlacementOffset ==
    JustStitched =>
        \A k \in DOMAIN originalFontData.chars :
            LET old == originalFontData.chars[k]
                new == updatedFontData.chars[k]
            IN  (old.page + 1) \in DOMAIN layout.positions =>
                    /\ new.x = old.x + layout.positions[old.page + 1].x
                    /\ new.y = old.y + layout.positions[old.page + 1].y
                    /\ new.page = 0

\* two 256x256 pages: the glyph of page 1 at (10, 10) is at (268, 10) of page 0
C5_Witness ==
    /\ JustStitched
    /\ textures = << [width |-> 256, height |-> 256], [width |-> 256, height |-> 256] >>
    /\ \E k \in DOMAIN originalFontData.chars :
          /\ originalFontData.chars[k].page = 1
          /\ originalFontData.chars[k].x = 10
          /\ originalFontData.chars[k].y = 10
          /\ updatedFontData.chars[k].page = 0
          /\ updatedFontData.chars[k].x = 268
          /\ updatedFontData.chars[k].y = 10

warnedFor(k) == \E j \in DOMAIN console : console[j].level = "warn" /\ console[j].char = k

\* C6: a glyph whose page has no placement does not stop the merge: it comes
\* back on page 0 with x and y as they were, a warning is written for it,
\* and the other glyphs are remapped as usual.
C6_MissingPlacementTolerated ==
    JustStitched =>
        /\ Len(updatedFontData.chars) = Len(originalFontData.chars)
        /\ \A k \in DOMAIN originalFontData.chars :
              LET old == originalFontData.chars[k]
                  new == updatedFontData.chars[k]
              IN  IF (old.page + 1) \in DOMAIN layout.positions
                  THEN /\ new.x = old.x + layout.positions[old.page + 1].x
                       /\ new.page = 0
                       /\ ~warnedFor(k)
                  ELSE /\ new.page = 0
                       /\ new.x = old.x
                       /\ new.y = old.y
                       /\ warnedFor(k)

C6_Witness ==
    /\ JustStitched
    /\ Len(originalFontData.chars) = 2
    /\ originalFontData.chars[1].page = Len(textures)
    /\ originalFontData.chars[2].page = 1
    /\ updatedFontData.chars[1].page = 0
    /\ updatedFontData.chars[2].x > originalFontData.chars[2].x
    /\ Len(console) = 1

dimensionsMatchPlan ==
    /\ Len(layout.positions) = Len(textures)
    /\ \A k \in DOMAIN textures :
          /\ textures[k].width = layout.positions[k].width
          /\ textures[k].height = layout.positions[k].height

\* C7: the compositing step fails, and leaves no merged atlas, when a page's
\* size differs from its placement's size or pages and placements do not pair
\* up; so a compositing step that completed had matching pages and placements.
C7_CompositionRejectsMismatch ==
    (pc \in {"stitched", "written"} \/ (pc = "resolved" /\ tempPaths # <<>>))
        => dimensionsMatchPlan

\* C8: the plan of a single page is the identity plan.
C8_SinglePageIdentity ==
    (planOut # NONE /\ Len(planIn) = 1) =>
        planOut = [width |-> planIn[1].width,
                   height |-> planIn[1].height,
                   positions |-> << [x |-> 0, y |-> 0,
                                     width |-> planIn[1].width,
                                     height |-> planIn[1].height] >>]

C8_Witness ==
    /\ planOut # NONE
    /\ Len(planIn) = 1
    /\ planIn[1] = [width |-> 512, height |-> 256]
    /\ planOut.width = 512

singleAtlasDocument(doc) ==
    /\ doc.common.pages = 1
    /\ doc.common.scaleW = layout.width
    /\ doc.common.scaleH = layout.height
    /\ doc.pages = << fontName \o "." \o fieldType \o ".png" >>

\* C9: after a multi-page merge the document stitchTextures returns says one
\* page, the canvas size of the plan, and one page file, the merged atlas;
\* and that document is the one generateFont leaves at the JSON path.
C9_MergedDocument ==
    /\ JustStitched => singleAtlasDocument(updatedFontData)
    /\ (pc = "written" \/ (pc = "resolved" /\ tempPaths # <<>>)) =>
          /\ jsonName(fieldType) \in DOMAIN files
          /\ JSONparse(files[jsonName(fieldType)]) = updatedFontData
          /\ singleAtlasDocument(JSONparse(files[jsonName(fieldType)]))

C9_Witness ==
    /\ pc = "resolved"
    /\ result.stitched
    /\ Len(textures) = 2
    /\ JSONparse(files[jsonName(fieldType)]).common.scaleW = 514
    /\ JSONparse(files[jsonName(fieldType)]).common.pages = 1

-----------------------------------------------------------------------------
(* Properties of family generation *)

FamilyReturned == fpc = "returned" /\ familyResult # NULL

RECURSIVE sumPageCounts(_, _)
sumPageCounts(styles, n) ==
    IF n = 0 THEN 0 ELSE styles[n].pageCount + sumPageCounts(styles, n - 1)

\* C10: in a returned family descriptor the styles' page ranges
\* [pageIndex, pageIndex + pageCount) follow one another without gap or
\* overlap, starting at page 0, and the page counts add up to the number of
\* family page images, however many pages each style's rasterization gave.
C10_ContiguousPageRanges ==
    FamilyReturned =>
        /\ familyResult.styles[1].pageIndex = 0
        /\ \A k \in DOMAIN familyResult.styles :
              k > 1 => familyResult.styles[k].pageIndex =
                          familyResult.styles[k - 1].pageIndex
                              + familyResult.styles[k - 1].pageCount
        /\ sumPageCounts(familyResult.styles, Len(familyResult.styles))
              = Len(familyResult.pngPaths)

-----------------------------------------------------------------------------
(* Properties of family generation and of the metrics step *)

sortedStyles == [k \in DOMAIN sortOut |-> sortOut[k].style]

regularLabel(l) == l \in {"Regular", "regular"}

\* alphabetical position of the labels that are not regular
labelPosition(l) == IF l = "Bold" THEN 1 ELSE 2

\* C11: in the list fonts.sort leaves behind, every style whose lower-cased
\* label is "regular" precedes every other style, the other styles are in
\* ascending label order, the list holds the same font files as before, and
\* so its first entry is a regular style whenever the family has one
C11_RegularFirstThenAlphabetical ==
    /\ Len(sortOut) = Len(sortIn)
    /\ RangeOf(sortOut) = RangeOf(sortIn)
    /\ \A a, b \in DOMAIN sortOut :
         a < b =>
           /\ regularLabel(sortedStyles[b]) => regularLabel(sortedStyles[a])
           /\ (~regularLabel(sortedStyles[a]) /\ ~regularLabel(sortedStyles[b]))
                 => labelPosition(sortedStyles[a]) <= labelPosition(sortedStyles[b])
    /\ (\E k \in DOMAIN sortIn : regularLabel(sortIn[k].style))
          => regularLabel(sortOut[1].style)

\* [Bold, Regular, Italic] has been sorted to [Regular, Bold, Italic]
C11_Witness ==
    /\ [k \in DOMAIN sortIn |-> sortIn[k].style] = <<"Bold", "Regular", "Italic">>
    /\ sortedStyles = <<"Regular", "Bold", "Italic">>

\* the family document as it is on disk
familyDocumentOnDisk == JSONparse(files[familyJsonName(fieldType)])

decimalRange(first, count) ==
    IF count = 1 THEN ToString(first)
    ELSE ToString(first) \o "-" \o ToString(first + count - 1)

\* C12: the family document written by generateFontFamily has one styles
\* entry per style, in generation order, with the style's label, pageIndex
\* and pageCount and with the pageRange string "start" for one page and
\* "start-end" for several; its pages list names the family page files
\* <family>.<fieldType>_<k>.png for k = 0..n-1 in order
C12_StylesIndexAndPages ==
    FamilyReturned =>
        LET doc == familyDocumentOnDisk
        IN  /\ Len(doc.styles) = Len(fonts)
            /\ \A k \in DOMAIN fonts :
                 /\ doc.styles[k].style = fonts[k].style
                 /\ doc.styles[k].pageIndex = familyResult.styles[k].pageIndex
                 /\ doc.styles[k].pageCount = familyResult.styles[k].pageCount
                 /\ doc.styles[k].pageCount >= 1
                 /\ doc.styles[k].pageRange =
                        decimalRange(doc.styles[k].pageIndex, doc.styles[k].pageCount)
            /\ Len(doc.pages) = Len(familyResult.pngPaths)
            /\ \A k \in DOMAIN doc.pages :
                 doc.pages[k] = familyName \o "." \o fieldType \o "_"
                                    \o ToString(k - 1) \o ".png"

\* a family of a two-page style followed by a one-page style was written
C12_Witness ==
    /\ FamilyReturned
    /\ Len(familyDocumentOnDisk.styles) = 2
    /\ familyDocumentOnDisk.styles[1].pageRange = "0-1"
    /\ familyDocumentOnDisk.styles[2].pageRange = "2"
    /\ Len(familyDocumentOnDisk.pages) = 3

\* the base names <family>-<style>.<fieldType> of the family's styles
styleBases == {individualBaseName(fonts[k].style, fieldType) : k \in DOMAIN fonts}

\* f is a page image of one of the family's styles
isStylePage(f) ==
    \E base \in styleBases : f = base \o ".png" \/ isPaginatedFile(f, base)

\* f is a family page image
isFamilyPage(f) == \E k \in 0..(MaxStyles * (MaxStylePages + 1)) : f = familyPageName(fieldType, k)

NoStyleArtifactLeft ==
    \A f \in DOMAIN files :
        /\ ~isStylePage(f)
        /\ \A base \in styleBases : f # base \o ".json"

\* a step that deletes a style's page image leaves a family page with the
\* same pixels behind
CopiedBeforeDeleted ==
    \A f \in DOMAIN files :
        (isStylePage(f) /\ f \notin DOMAIN files')
            => \E g \in DOMAIN files' : isFamilyPage(g) /\ files'[g] = files[f]

\* C13: when generateFontFamily returns, no <family>-<style>.<fieldType>.png,
\* no <family>-<style>.<fieldType>_<k>.png and no
\* <family>-<style>.<fieldType>.json of any style of the family is left in
\* the directory, and no style page image was deleted before its pixels were
\* copied to a family page
C13_NoOrphansAndCopiedFirst ==
    /\ [](fpc = "returned" => NoStyleArtifactLeft)
    /\ [][CopiedBeforeDeleted]_vars

\* the style at position k (1-based) has been relabeled: its entry carries
\* the page count the second loop records
relabeled(k) == k <= Len(styleInfos) /\ "pageCount" \in DOMAIN styleInfos[k]

\* no page image and no document of the style at position k is on disk
cleanedUp(k) ==
    LET base == individualBaseName(fonts[k].style, fieldType)
    IN  \A f \in DOMAIN files :
            f # base \o ".png" /\ f # base \o ".json" /\ ~isPaginatedFile(f, base)

\* the step is the rasterization of the style after s_k
rasterizesNextStyle ==
    /\ fpc = "generating"
    /\ loopI >= 1
    /\ Len(styleInfos') = Len(styleInfos) + 1

\* C19 as stated: rasterization, relabeling and cleanup of s_k are complete
\* before the rasterization of s_(k+1) begins
C19_StylesAreWholeUnits ==
    [][rasterizesNextStyle => (relabeled(loopI) /\ cleanedUp(loopI))]_vars

\* C19: generateFontFamily works in two phases. It rasterizes the styles
\* strictly one after another and relabels nothing meanwhile; only when every
\* style has been rasterized does it relabel and clean up the styles, one
\* after another in the same order, each style's copy and cleanup being
\* complete before the next style's copy begins
C19_RasterizeAllThenRelabel ==
    /\ fpc = "generating" =>
         /\ Len(styleInfos) = loopI
         /\ \A k \in DOMAIN fonts : ~relabeled(k)
         /\ familyPngPaths = <<>>
         /\ \A f \in DOMAIN files : ~isFamilyPage(f)
    /\ fpc = "relabeling" =>
         /\ Len(styleInfos) = Len(fonts)
         /\ \A k \in DOMAIN fonts : relabeled(k) <=> k <= loopI
         /\ \A k \in DOMAIN fonts : k <= loopI => cleanedUp(k)

\* the first style has been relabeled and cleaned up, the second not yet
C19_Witness ==
    /\ fpc = "relabeling"
    /\ loopI = 1
    /\ Len(styleInfos) >= 2
    /\ cleanedUp(1)
    /\ ~cleanedUp(2)

\* the family at position k of fontFamilies has a first style whose document
\* the rasterizer wrote as JSON
templateReadable(family) == catalogued(sortFonts(family.fonts)[1].path).json

\* the step is the first rasterization of a family and leaves a first
\* style's document behind that JSON.parse does not accept
templateFoundUnreadable ==
    /\ fpc = "generating"
    /\ loopI = 0
    /\ Len(styleInfos') = 1
    /\ LET jsonPath == individualBaseName(fonts[1].style, fieldType) \o ".json"
       IN  jsonPath \in DOMAIN files' /\ files'[jsonPath].kind # "json"

\* C14: a first style's document that cannot be read never makes
\* generateFontFamily throw, and what genFontsByFamily hands back to
\* generateFonts is the descriptors of exactly the families whose template
\* could be read, in family order
C14_UnreadableTemplateIsNull ==
    /\ [][templateFoundUnreadable => fpc' # "rejected"]_vars
    /\ [](rpc = "adjusting" =>
            [k \in DOMAIN results |-> results[k].fontFamily]
              = [k \in DOMAIN SelectSeq(fontFamilies, templateReadable) |->
                    SelectSeq(fontFamilies, templateReadable)[k].name])

\* the step is an adjustFont call that returned
adjustReturned == rpc \in {"adjust", "adjusting"} /\ rpc' # "exited"

\* the descriptor the adjustFont call of the step is given
adjustTarget == IF rpc = "adjust" THEN info ELSE results[adjIdx]

halfFloor(d) == CHOOSE p \in 0..d : 2 * p <= d /\ d < 2 * p + 2

\* C15: an adjustFont call (single font or family) rewrites the document so
\* that the baseline drops by pad = floor(d / 2) and every glyph's yoffset by
\* 2 * pad, d being the document's distance range, and leaves every other
\* glyph field as it was
C15_BiasCorrection ==
    [][adjustReturned =>
        LET before == files[adjustTarget.jsonPath].data
            after == files'[adjustTarget.jsonPath].data
            pad == halfFloor(before.distanceField.distanceRange)
        IN  /\ after.common.base = before.common.base - pad
            /\ DOMAIN after.chars = DOMAIN before.chars
            /\ \A k \in DOMAIN before.chars :
                 /\ after.chars[k].yoffset = before.chars[k].yoffset - 2 * pad
                 /\ [after.chars[k] EXCEPT !.yoffset = 0]
                      = [before.chars[k] EXCEPT !.yoffset = 0]
            /\ (before.distanceField.distanceRange = 4 /\ before.common.base = 40)
                 => after.common.base = 38
            /\ \A k \in DOMAIN before.chars :
                 (before.distanceField.distanceRange = 4 /\ before.chars[k].yoffset = 10)
                    => after.chars[k].yoffset = 6]_vars

\* a family run is over with Noto's documents adjusted: distance range 3
\* took 1 off the baseline, distance range 6 took 3 off
C15_Witness ==
    /\ rpc = "done"
    /\ useFamily
    /\ "Noto.msdf.json" \in DOMAIN files
    /\ files["Noto.msdf.json"].data.common.base = 39
    /\ files["Noto.ssdf.json"].data.common.base = 37
    /\ \E k \in DOMAIN files["Noto.msdf.json"].data.chars :
           files["Noto.msdf.json"].data.chars[k].yoffset = 8

\* the step is an adjustFont call on a family descriptor that returned
familyAdjusted == rpc = "adjusting" /\ rpc' # "exited"

\* what opentype reports for the style at position k of the adjusted family
styleMetrics(k) == catalogued(results[adjIdx].styles[k].fontPath).os2

metricsWritten == {f \in adjustWrites' : f # results[adjIdx].jsonPath}

\* C16: when every style of the family reports the same ascender, descender,
\* lineGap and unitsPerEm, adjustFontFamily writes exactly the one metrics
\* file metrics/<family>.metrics.json; when a style differs in any of them it
\* writes one file metrics/<family>-<style>.metrics.json per style, as many
\* files as styles, and no shared file; either way the family document's
\* lightningMetrics is the first style's metrics
C16_MetricsReconciliation ==
    [][familyAdjusted =>
        LET family == results[adjIdx]
            n == Len(family.styles)
            same == \A k \in 1..n : styleMetrics(k) = styleMetrics(1)
        IN  /\ same => metricsWritten = {"metrics/" \o family.fontFamily \o ".metrics.json"}
            /\ ~same =>
                 /\ metricsWritten =
                      {"metrics/" \o family.fontFamily \o "-" \o family.styles[k].fontStyle
                          \o ".metrics.json" : k \in 1..n}
                 /\ Cardinality(metricsWritten) = n
            /\ files'[family.jsonPath].data.lightningMetrics = styleMetrics(1)]_vars

\* the step is an adjustFont call for a font whose OS/2 metrics cannot be read
introspectionFails ==
    /\ rpc \in {"adjust", "adjusting"}
    /\ IF rpc = "adjust"
       THEN catalogued(info.fontPath).os2 = NONE
       ELSE \E k \in DOMAIN results[adjIdx].styles :
                catalogued(results[adjIdx].styles[k].fontPath).os2 = NONE

\* C17: an adjustFont call whose font cannot be introspected does not throw:
\* the process is not ended, and generateFonts goes on with the next job of
\* the batch
C17_IntrospectionFailureSkipped ==
    [][introspectionFails => (rpc' # "exited" /\ exitCode' = NONE)]_vars

\* the step is a genFont call for a font file that is not in font-src
callsGenFontOnMissingFont ==
    /\ rpc = "individual"
    /\ ~catalogued("font-src/" \o fontFiles[fileIdx]).exists

\* the job after (fileIdx, fieldType) in the individual loop, or the end
loopContinues ==
    IF fieldType = "msdf"
    THEN rpc' = "individual" /\ fileIdx' = fileIdx /\ fieldType' = "ssdf"
    ELSE IF fileIdx < Len(fontFiles)
    THEN rpc' = "individual" /\ fileIdx' = fileIdx + 1 /\ fieldType' = "msdf"
    ELSE rpc' = "done"

BadFieldTypes == {"sdf", "mtsdf", ""}

\* C18: genFont called with a font file that does not exist returns null
\* without calling the rasterizer and without touching a file, and the loop
\* of generateFonts goes on with the next job; called with a field type other
\* than msdf and ssdf it returns null in the same way, whatever the font
C18_ConfigErrorsReturnNull ==
    /\ [][callsGenFontOnMissingFont =>
            /\ info' = NULL
            /\ files' = files
            /\ ~lastCall'.rasterized
            /\ exitCode' = NONE
            /\ loopContinues]_vars
    /\ [](\A ft \in BadFieldTypes : \A k \in DOMAIN FontCatalogue : \A n \in 0..MaxStylePages :
            LET call == genFontCall(files, FontCatalogue[k].file, ft, n)
            IN  call.info = NULL /\ call.fs = files /\ ~call.rasterized)

\* a run over a missing font and a good one is over: both genFont calls for
\* the missing font wrote nothing and the good font was generated after them
C18_Witness ==
    /\ rpc = "done"
    /\ ~useFamily
    /\ fontFiles = <<"Missing-Regular.ttf", "Noto-Regular.ttf">>
    /\ "Noto-Regular.ssdf.json" \in DOMAIN files
    /\ \A f \in DOMAIN files : f # "Missing-Regular.msdf.json"

\* the names of the documents genFont and generateFontFamily return a
\* descriptor for in this run
describedDocuments ==
    IF useFamily
    THEN {fontFamilies[k].name \o "." \o ft \o ".json" :
              k \in DOMAIN fontFamilies, ft \in FieldTypes}
    ELSE {catalogued("font-src/" \o fontFiles[k]).stem \o "." \o ft \o ".json" :
              k \in DOMAIN fontFiles, ft \in FieldTypes}

\* the document has been corrected `times` times since the rasterizer wrote
\* it with baseline 40 and yoffset 10
correctedTimes(content, times) ==
    /\ content.kind = "json"
    /\ LET doc == content.data
           pad == halfFloor(doc.distanceField.distanceRange)
       IN  /\ doc.common.base = 40 - times * pad
           /\ \A k \in DOMAIN doc.chars :
                  doc.chars[k].yoffset = 10 - times * 2 * pad

\* C20: at every moment of a run of generateFonts no described document has
\* been corrected more than once since generation wrote it, and when the run
\* is over every described document on disk has been corrected exactly once
C20_AdjustedExactlyOnce ==
    /\ \A f \in describedDocuments \cap DOMAIN files :
          files[f].kind = "json" =>
              (correctedTimes(files[f], 0) \/ correctedTimes(files[f], 1))
    /\ rpc \in {"done", "exited"} =>
          \A f \in describedDocuments \cap DOMAIN files : correctedTimes(files[f], 1)

\* the step is a rasterization inside generateFontFamily that fails: the
\* call rejects and the failed style is not recorded
rasterizationFails ==
    /\ fpc = "generating"
    /\ fpc' = "rejected"
    /\ styleInfos' = styleInfos

\* the document and the page images generateFont wrote for the styles
\* rasterized so far are on disk
earlierStylesOnDisk ==
    /\ \A j \in DOMAIN styleInfos :
          (individualBaseName(styleInfos[j].fontStyle, fieldType) \o ".json") \in DOMAIN files
    /\ \A j \in DOMAIN individualPngPaths : individualPngPaths[j] \in DOMAIN files

\* C21: when the rasterization of style k fails inside generateFontFamily the
\* call rejects; from then on no style is rasterized, no family page image and
\* no family document is written and no descriptor is returned; and the
\* failure deletes nothing, so the files written for styles 0..k-1 are still
\* in the destination directory
C21_RasterFaultAbortsFamily ==
    /\ [][rasterizationFails =>
            /\ files' = files
            /\ Len(styleInfos') = loopI
            /\ familyResult' = NONE]_vars
    /\ [][fpc = "rejected" =>
            /\ fpc' = "rejected"
            /\ files' = files
            /\ styleInfos' = styleInfos
            /\ familyResult' = familyResult]_vars
    /\ [](fpc = "rejected" =>
            /\ earlierStylesOnDisk
            /\ familyResult = NONE
            /\ \A f \in DOMAIN files :
                  ~isFamilyPage(f) /\ f # familyJsonName(fieldType))

\* the rasterization of the second style failed after the first style's two
\* pages and document had been written
C21_Witness ==
    /\ fpc = "rejected"
    /\ loopI = 1
    /\ Len(styleInfos) = 1
    /\ Len(individualPngPaths) = 2
    /\ earlierStylesOnDisk

\* generateFont has resolved
Resolved == pc = "resolved"

\* the per-page files <fontName>.<fieldType>.<i>.png of a job of n pages
pageFileNames(n) ==
    {fontName \o "." \o fieldType \o "." \o ToString(i) \o ".png" : i \in 0..(n - 1)}

mergedAtlasName == fontName \o "." \o fieldType \o ".png"
documentName == fontName \o "." \o fieldType \o ".json"

\* the step deletes a per-page file
deletesPageFile ==
    \E f \in pageFileNames(Len(textures)) : f \in DOMAIN files /\ f \notin DOMAIN files'

\* the merged atlas and the document with the merged coordinates are on disk
mergedOutputsWritten ==
    /\ mergedAtlasName \in DOMAIN files
    /\ files[mergedAtlasName] = toBuffer(canvas)
    /\ documentName \in DOMAIN files
    /\ files[documentName].data = stitchResult.updatedFontData

\* C22: after a successful generateFont for N >= 2 pages the destination
\* holds the merged atlas <fontName>.<fieldType>.png as the only image and
\* none of the N per-page files; a per-page file is deleted only when the
\* merged atlas and the updated document have been written; the result says
\* stitched exactly when N >= 2; and for N = 1 the document on disk is the
\* one the rasterizer produced
C22_OnlyMergedAtlasRemains ==
    /\ [](Resolved =>
            /\ result.stitched <=> Len(textures) >= 2
            /\ Len(textures) >= 2 =>
                 /\ {f \in DOMAIN files : files[f].kind # "json"} = {mergedAtlasName}
                 /\ pageFileNames(Len(textures)) \cap DOMAIN files = {}
                 /\ result.pngPath = mergedAtlasName
            /\ Len(textures) = 1 =>
                 /\ files[documentName].kind = "json"
                 /\ files[documentName].data =
                      rasterDocument(textures, files[documentName].data.chars, fontName)
                 /\ console = <<>>)
    /\ [][deletesPageFile => mergedOutputsWritten]_vars

\* a two-page job has resolved: merged atlas and document are all that is left
C22_Witness ==
    /\ Resolved
    /\ result.stitched
    /\ Len(textures) = 2
    /\ DOMAIN files = {mergedAtlasName, documentName}

\* the fields of a glyph record that remapping is not about
frameOf(g) ==
    [id |-> g.id, width |-> g.width, height |-> g.height,
     xoffset |-> g.xoffset, yoffset |-> g.yoffset, xadvance |-> g.xadvance]

\* C23: updateCharacterCoordinates returns as many glyphs as it was given, in
\* the same order, each with the fields of its input glyph and with id, width,
\* height, xoffset, yoffset and xadvance unchanged (only x, y and page may
\* differ); the glyph list and the glyph records of the argument are as they
\* were before the call
C23_RemapFrame ==
    JustStitched =>
        LET input == originalFontData.chars
            output == updatedFontData.chars
        IN  /\ Len(output) = Len(input)
            /\ \A k \in DOMAIN input :
                 /\ DOMAIN output[k] = DOMAIN input[k]
                 /\ frameOf(output[k]) = frameOf(input[k])
            /\ fontDataAfterUpdate(originalFontData, layout).chars = input

\* two different glyphs were remapped, one moved and one without placement
C23_Witness ==
    /\ JustStitched
    /\ Len(originalFontData.chars) = 2
    /\ originalFontData.chars[1].id # originalFontData.chars[2].id
    /\ ~hasPosition(layout, originalFontData.chars[1].page)
    /\ updatedFontData.chars[2].x # originalFontData.chars[2].x
    /\ updatedFontData.chars[2].page # originalFontData.chars[2].page

====
